---- MODULE Spec2Model ----
(***************************************************************************)
(* Model of tools/copier_update.py: the batch loop that runs `copier       *)
(* update` and `pre-commit` on every (repository, branch) pair and either  *)
(* pushes the result or opens a "needs manual intervention" pull request.  *)
(*                                                                         *)
(* Python strings that the program splits or concatenates are sequences    *)
(* of tokens (a token is one character, or one indivisible piece of a      *)
(* longer literal).  Every external command is one step of main; its exit  *)
(* code and its effect on the work tree are inputs drawn from small sets.  *)
(* oca_projects (temporary_clone, get_repositories) and gitutils           *)
(* (commit_if_needed) are imported, not defined, by copier_update.py;      *)
(* they are modelled from their documented contracts.                      *)
(***************************************************************************)
EXTENDS Integers, Sequences, FiniteSets, TLC

VARIABLES
    repos,          \* --repos
    branches,       \* --branches
    pairs,          \* the pairs yielded by _iterate_repos_and_branches
    skip_ci,        \* --skip-ci / --no-skip-ci
    git_user_name,  \* TRUE iff --git-user-name is a non-empty string
    git_user_email, \* TRUE iff --git-user-email is a non-empty string
    idx,            \* number of pairs started so far; pairs[idx] is current
    pc,             \* position of main
    exc,            \* exception in flight ("none" when there is none)
    workspaces,     \* iterations whose temporary clone directory exists
    head,           \* tree of HEAD in the clone
    index,          \* tree of the git index in the clone
    work,           \* tree of the working directory in the clone
    curBranch,      \* branch checked out in the clone
    r,              \* main's local r: last exit code of copier / pre-commit
    passes,         \* iterations of `for _ in range(3)` completed
    open_pr,        \* value returned by _get_update_dotfiles_open_pr
    log,            \* commands issued in the current iteration, in order
    prs             \* hosting service: the pull requests of each (repo,
                    \* base branch) main has asked about, newest first

vars == <<repos, branches, pairs, skip_ci, git_user_name, git_user_email, idx, pc, exc,
          workspaces, head, index, work, curBranch, r, passes, open_pr,
          log, prs>>

-----------------------------------------------------------------------------
(* Bounds of the model *)

MaxExitCode == 1   \* exit codes of external commands are 0..MaxExitCode
MaxPRs == 2        \* pull requests listed for one head/base before the run

(* Program constants *)

FormatPasses == 3  \* range(3)

ExitCodes == 0..MaxExitCode

-----------------------------------------------------------------------------
(* Strings *)

WhiteSpace == {" "}

RECURSIVE Split(_, _)
\* str.split(sep): the pieces between separators; never an empty list
Split(s, sep) ==
    IF \E i \in 1..Len(s) : s[i] = sep
    THEN LET i == CHOOSE j \in 1..Len(s) :
                      s[j] = sep /\ \A k \in 1..(j - 1) : s[k] # sep
         IN  <<SubSeq(s, 1, i - 1)>> \o Split(SubSeq(s, i + 1, Len(s)), sep)
    ELSE <<s>>

RECURSIVE LStrip(_)
LStrip(s) ==
    IF s # <<>> /\ Head(s) \in WhiteSpace THEN LStrip(Tail(s)) ELSE s

RECURSIVE RStrip(_)
RStrip(s) ==
    IF s # <<>> /\ s[Len(s)] \in WhiteSpace
    THEN RStrip(SubSeq(s, 1, Len(s) - 1))
    ELSE s

\* str.strip()
Strip(s) == RStrip(LStrip(s))

IsPrefix(p, s) == Len(p) <= Len(s) /\ SubSeq(s, 1, Len(p)) = p

RECURSIVE Replace(_, _, _)
\* str.replace(old, new): every non-overlapping occurrence, left to right
Replace(s, old, new) ==
    IF s = <<>> THEN <<>>
    ELSE IF IsPrefix(old, s)
         THEN new \o Replace(SubSeq(s, Len(old) + 1, Len(s)), old, new)
         ELSE <<Head(s)>> \o Replace(Tail(s), old, new)

-----------------------------------------------------------------------------
(* Names and messages *)

IGNORED_REJ_FILES == <<"oca_dependencies.txt.rej">>

\* _make_update_dotfiles_branch
MakeUpdateDotfilesBranch(branch) == branch \o <<"-ocabot-update-dotfiles">>

\* as _make_commit_msg, with the marker never appended
MakeCommitMsg_NoMarker(ci_skip) == "[IMP] update dotfiles"

\* _make_commit_msg
MakeCommitMsg(ci_skip) ==
    IF ci_skip THEN "[IMP] update dotfiles" \o " [ci skip]"
               ELSE "[IMP] update dotfiles"

FixCommitMsg == "[FIX] .copier-answers.yml"

AllSentinel == <<":", "a", "l", "l", ":">>

\* get_repositories(): the registry's list of repository names
RegistryRepos == << <<"a">>, <<"b">> >>

\* as StripNonEmpty, without the `continue` on a blank entry
StripNonEmpty_KeepBlank(entries) ==
    [i \in 1..Len(entries) |-> Strip(entries[i])]

RECURSIVE StripNonEmpty(_)
\* the stripped entries of a list of strings, blank entries dropped
StripNonEmpty(entries) ==
    IF entries = <<>> THEN <<>>
    ELSE LET e == Strip(Head(entries))
         IN  (IF e = <<>> THEN <<>> ELSE <<e>>) \o StripNonEmpty(Tail(entries))

RECURSIVE PairsOf(_, _)
PairsOf(repoList, branchList) ==
    IF repoList = <<>> THEN <<>>
    ELSE [i \in 1..Len(branchList) |-> <<Head(repoList), branchList[i]>>]
         \o PairsOf(Tail(repoList), branchList)

\* _iterate_repos_and_branches, as the sequence of the pairs it yields
IterateReposAndBranches(repos_arg, branches_arg) ==
    LET all_repos == IF repos_arg = AllSentinel THEN RegistryRepos
                     ELSE Split(repos_arg, ",")
    IN  PairsOf(StripNonEmpty(all_repos),
                StripNonEmpty(Split(branches_arg, ",")))

-----------------------------------------------------------------------------
(* The clone: three trees (HEAD, index, working directory) *)

NoFile == [exists |-> FALSE, text |-> <<>>]
File(text) == [exists |-> TRUE, text |-> text]

OldField == <<"repo_description: ", "null">>
NewField == <<"repo_description: ", "\"\"">>

\* contents of .copier-answers.yml found in a fresh clone
CloneAnswers == {NoFile, File(<<"x">>), File(OldField), File(NewField)}

\* ans: .copier-answers.yml, rest: every other tracked file, rej: whether
\* oca_dependencies.txt.rej exists
Tree(ans, rest, rej) == [ans |-> ans, rest |-> rest, rej |-> rej]

\* the other tracked files are as they were cloned, or differ from that
TreeContents == {"cloned", "changed"}

NoTree == Tree(NoFile, "cloned", FALSE)

\* what an external tool may leave in the working directory; it does not
\* touch the answers file
ToolResults(t) == {Tree(t.ans, n, j) : n \in TreeContents, j \in BOOLEAN}

\* pre-commit rewrites tracked files only
FormatResults(t) == {Tree(t.ans, n, t.rej) : n \in TreeContents}

-----------------------------------------------------------------------------
(* The log of the current iteration *)

Ev(op, msg, br, force, rc) ==
    [op |-> op, msg |-> msg, br |-> br, force |-> force, rc |-> rc]

Cmd(op, rc) == Ev(op, "", <<>>, FALSE, rc)

Ops(l) == {l[i].op : i \in 1..Len(l)}

CurBranch == pairs[idx][2]

-----------------------------------------------------------------------------
(* The hosting service *)

PR(state, number) == [state |-> state, number |-> number]

RECURSIVE PRListsOfLen(_)
\* the lists the pulls endpoint may return for one head/base, newest first
PRListsOfLen(n) ==
    IF n = 0 THEN {<<>>}
    ELSE {<<PR(s, n)>> \o l : s \in {"open", "closed"}, l \in PRListsOfLen(n - 1)}

OpenPRs(l) == {i \in 1..Len(l) : l[i].state = "open"}

\* the service holds at most one open pull request per head and base
PRLists ==
    {l \in UNION {PRListsOfLen(n) : n \in 0..MaxPRs} :
        Cardinality(OpenPRs(l)) <= 1}

NoPR == 0   \* Python's None, as falsy as the number 0

-----------------------------------------------------------------------------
(* Command-line inputs *)

\* the values of --repos and --branches the runs are started with
Inputs == { << <<"a">>, <<"x">> >>,
            << <<" ", "a", ",", ",", "a">>, <<"x">> >>,
            << <<"a">>, <<"x", ",", " ", "y">> >>,
            << AllSentinel, <<"x">> >> }

Init ==
    /\ \E in \in Inputs : repos = in[1] /\ branches = in[2]
    /\ pairs = IterateReposAndBranches(repos, branches)
    /\ skip_ci \in BOOLEAN
    /\ git_user_name \in BOOLEAN
    /\ git_user_email \in BOOLEAN
    /\ idx = 0
    /\ pc = "loop"
    /\ exc = "none"
    /\ workspaces = {}
    /\ head = NoTree
    /\ index = NoTree
    /\ work = NoTree
    /\ curBranch = <<>>
    /\ r = 0
    /\ passes = 0
    /\ open_pr = NoPR
    /\ log = <<>>
    /\ prs = <<>>

-----------------------------------------------------------------------------
(* Control flow shared by the steps of main *)

\* a statement of the with block completed: go on at position next
Goto(next) == pc' = next /\ exc' = exc

\* as Raise, but the exception reaches the except clause directly, as it
\* would if the clone were not held by a with statement
Raise_PastExit(e) == pc' = "except" /\ exc' = e

\* an exception leaves the with block; temporary_clone's exit runs first
Raise(e) == pc' = "with_exit" /\ exc' = e

\* `continue`, or falling off the end of the with block
LeaveWith == pc' = "with_exit" /\ exc' = "none"

Append1(l, e) == l \o <<e>>

\* subprocess.check_call of a command that changes nothing the model
\* tracks beyond the trees given: raises CalledProcessError unless rc = 0
CheckCall(op, rc, next) ==
    /\ log' = Append1(log, Cmd(op, rc))
    /\ IF rc = 0 THEN Goto(next) ELSE Raise("CalledProcessError")

\* git commit: exits non-zero when the index equals HEAD (nothing to
\* commit), otherwise with rc; on success HEAD becomes the index
GitCommit(msg, rc, next) ==
    LET code == IF index = head /\ rc = 0 THEN 1 ELSE rc
    IN  /\ log' = Append1(log, Ev("git_commit", msg, curBranch, FALSE, code))
        /\ head' = (IF code = 0 THEN index ELSE head)
        /\ IF code = 0 THEN Goto(next) ELSE Raise("CalledProcessError")

-----------------------------------------------------------------------------
(* main *)

\* for repo, branch in _iterate_repos_and_branches(repos, branches)
LoopNext ==
    /\ pc = "loop"
    /\ IF idx < Len(pairs)
       THEN /\ idx' = idx + 1
            /\ pc' = "clone"
            /\ log' = <<>>
            /\ r' = 0
            /\ passes' = 0
            /\ open_pr' = NoPR
       ELSE /\ pc' = "done"
            /\ UNCHANGED <<idx, log, r, passes, open_pr>>
    /\ UNCHANGED <<repos, branches, pairs, skip_ci, git_user_name,
                   git_user_email, exc,
                   workspaces, head, index, work, curBranch, prs>>

\* temporary_clone.__enter__: a fresh directory holding a clone of the
\* branch, or BranchNotFoundError, or the failure of git clone
TemporaryCloneEnter ==
    /\ pc = "clone"
    /\ \/ \E ans \in CloneAnswers :
            /\ workspaces' = workspaces \cup {idx}
            /\ head' = Tree(ans, "cloned", FALSE)
            /\ index' = Tree(ans, "cloned", FALSE)
            /\ work' = Tree(ans, "cloned", FALSE)
            /\ curBranch' = CurBranch
            /\ log' = <<Ev("git_clone", "", CurBranch, FALSE, 0)>>
            /\ pc' = "banner"
            /\ exc' = "none"
       \/ \E e \in {"BranchNotFoundError", "CalledProcessError"} :
            /\ exc' = e
            /\ log' = <<Ev("git_clone", e, CurBranch, FALSE, 1)>>
            /\ pc' = "except"
            /\ UNCHANGED <<workspaces, head, index, work, curBranch>>
    /\ UNCHANGED <<repos, branches, pairs, skip_ci, git_user_name,
                   git_user_email, idx, r,
                   passes, open_pr, prs>>

\* temporary_clone.__exit__: the directory is removed on every exit
TemporaryCloneExit ==
    /\ pc = "with_exit"
    /\ workspaces' = workspaces \ {idx}
    /\ head' = NoTree
    /\ index' = NoTree
    /\ work' = NoTree
    /\ curBranch' = <<>>
    /\ pc' = (IF exc = "none" THEN "loop" ELSE "except")
    /\ UNCHANGED <<repos, branches, pairs, skip_ci, git_user_name,
                   git_user_email, idx, exc,
                   r, passes, open_pr, log, prs>>

\* as ExceptClause, with a catch-all handler
ExceptClause_CatchAll ==
    /\ pc = "except"
    /\ pc' = "loop"
    /\ exc' = "none"
    /\ UNCHANGED <<repos, branches, pairs, skip_ci, git_user_name,
                   git_user_email, idx,
                   workspaces, head, index, work, curBranch, r, passes,
                   open_pr, log, prs>>

\* as ExceptClause, with no handler at all
ExceptClause_NoHandler ==
    /\ pc = "except"
    /\ pc' = "aborted"
    /\ exc' = exc
    /\ UNCHANGED <<repos, branches, pairs, skip_ci, git_user_name,
                   git_user_email, idx,
                   workspaces, head, index, work, curBranch, r, passes,
                   open_pr, log, prs>>

\* except BranchNotFoundError: pass -- anything else leaves main
ExceptClause ==
    /\ pc = "except"
    /\ IF exc = "BranchNotFoundError"
       THEN pc' = "loop" /\ exc' = "none"
       ELSE pc' = "aborted" /\ exc' = exc
    /\ UNCHANGED <<repos, branches, pairs, skip_ci, git_user_name,
                   git_user_email, idx,
                   workspaces, head, index, work, curBranch, r, passes,
                   open_pr, log, prs>>

\* print("=" * 10, repo, branch, "=" * 10)
Banner ==
    /\ pc = "banner"
    /\ log' = Append1(log, Cmd("banner", 0))
    /\ Goto("config_name")
    /\ UNCHANGED <<repos, branches, pairs, skip_ci, git_user_name,
                   git_user_email, idx,
                   workspaces, head, index, work, curBranch, r, passes,
                   open_pr, prs>>

\* if git_user_name: git config user.name
GitConfigName ==
    /\ pc = "config_name"
    /\ IF git_user_name
       THEN \E rc \in ExitCodes : CheckCall("git_config_name", rc, "config_email")
       ELSE Goto("config_email") /\ log' = log
    /\ UNCHANGED <<repos, branches, pairs, skip_ci, git_user_name,
                   git_user_email, idx,
                   workspaces, head, index, work, curBranch, r, passes,
                   open_pr, prs>>

\* if git_user_email: git config user.email
GitConfigEmail ==
    /\ pc = "config_email"
    /\ IF git_user_email
       THEN \E rc \in ExitCodes : CheckCall("git_config_email", rc, "exists")
       ELSE Goto("exists") /\ log' = log
    /\ UNCHANGED <<repos, branches, pairs, skip_ci, git_user_name,
                   git_user_email, idx,
                   workspaces, head, index, work, curBranch, r, passes,
                   open_pr, prs>>

\* as CheckAnswersExist, without the continue
CheckAnswersExist_NoContinue ==
    /\ pc = "exists"
    /\ IF ~work.ans.exists
       THEN log' = Append1(log, Cmd("skip_notice", 0)) /\ Goto("fix")
       ELSE log' = log /\ Goto("fix")
    /\ UNCHANGED <<repos, branches, pairs, skip_ci, git_user_name,
                   git_user_email, idx,
                   workspaces, head, index, work, curBranch, r, passes,
                   open_pr, prs>>

\* if not Path(".copier-answers.yml").exists(): print(...); continue
CheckAnswersExist ==
    /\ pc = "exists"
    /\ IF ~work.ans.exists
       THEN log' = Append1(log, Cmd("skip_notice", 0)) /\ LeaveWith
       ELSE log' = log /\ Goto("fix")
    /\ UNCHANGED <<repos, branches, pairs, skip_ci, git_user_name,
                   git_user_email, idx,
                   workspaces, head, index, work, curBranch, r, passes,
                   open_pr, prs>>

\* as FixCopierAnswers, without the test that the text changed
FixCopierAnswers_AlwaysWrite ==
    /\ pc = "fix"
    /\ IF ~work.ans.exists
       THEN Goto("copier") /\ UNCHANGED <<work, log>>
       ELSE LET copier_answers == work.ans.text
                modified_copier_answers ==
                    Replace(copier_answers, OldField, NewField)
            IN  /\ work' = [work EXCEPT !.ans = File(modified_copier_answers)]
                /\ log' = Append1(log, Cmd("write_answers", 0))
                /\ Goto("fix_add")
    /\ UNCHANGED <<repos, branches, pairs, skip_ci, git_user_name,
                   git_user_email, idx,
                   workspaces, head, index, curBranch, r, passes, open_pr,
                   prs>>

\* _fix_copier_answers, up to and including write_text
FixCopierAnswers ==
    /\ pc = "fix"
    /\ IF ~work.ans.exists
       THEN Goto("copier") /\ UNCHANGED <<work, log>>
       ELSE LET copier_answers == work.ans.text
                modified_copier_answers ==
                    Replace(copier_answers, OldField, NewField)
            IN  IF modified_copier_answers # copier_answers
                THEN /\ work' = [work EXCEPT !.ans = File(modified_copier_answers)]
                     /\ log' = Append1(log, Cmd("write_answers", 0))
                     /\ Goto("fix_add")
                ELSE Goto("copier") /\ UNCHANGED <<work, log>>
    /\ UNCHANGED <<repos, branches, pairs, skip_ci, git_user_name,
                   git_user_email, idx,
                   workspaces, head, index, curBranch, r, passes, open_pr,
                   prs>>

\* _fix_copier_answers: git add .copier-answers.yml
FixGitAdd ==
    /\ pc = "fix_add"
    /\ \E rc \in ExitCodes :
          /\ CheckCall("git_add_answers", rc, "fix_commit")
          /\ index' = (IF rc = 0 THEN [index EXCEPT !.ans = work.ans] ELSE index)
    /\ UNCHANGED <<repos, branches, pairs, skip_ci, git_user_name,
                   git_user_email, idx,
                   workspaces, head, work, curBranch, r, passes, open_pr,
                   prs>>

\* _fix_copier_answers: git commit -m "[FIX] .copier-answers.yml"
FixGitCommit ==
    /\ pc = "fix_commit"
    /\ \E rc \in ExitCodes : GitCommit(FixCommitMsg, rc, "copier")
    /\ UNCHANGED <<repos, branches, pairs, skip_ci, git_user_name,
                   git_user_email, idx,
                   workspaces, index, work, curBranch, r, passes, open_pr,
                   prs>>

\* as CopierUpdate, without the continue
CopierUpdate_NoContinue ==
    /\ pc = "copier"
    /\ \E rc \in ExitCodes, t \in ToolResults(work) :
          /\ r' = rc
          /\ work' = t
          /\ IF rc # 0
             THEN /\ log' = log \o <<Cmd("copier_update", rc),
                                     Cmd("update_failed_notice", 0)>>
                  /\ Goto("rm_rej")
             ELSE /\ log' = Append1(log, Cmd("copier_update", rc))
                  /\ Goto("rm_rej")
    /\ UNCHANGED <<repos, branches, pairs, skip_ci, git_user_name,
                   git_user_email, idx,
                   workspaces, head, index, curBranch, passes, open_pr, prs>>

\* r = subprocess.call(["copier", "update", ...]); if r != 0: ...; continue
CopierUpdate ==
    /\ pc = "copier"
    /\ \E rc \in ExitCodes, t \in ToolResults(work) :
          /\ r' = rc
          /\ work' = t
          /\ IF rc # 0
             THEN /\ log' = log \o <<Cmd("copier_update", rc),
                                     Cmd("update_failed_notice", 0)>>
                  /\ LeaveWith
             ELSE /\ log' = Append1(log, Cmd("copier_update", rc))
                  /\ Goto("rm_rej")
    /\ UNCHANGED <<repos, branches, pairs, skip_ci, git_user_name,
                   git_user_email, idx,
                   workspaces, head, index, curBranch, passes, open_pr, prs>>

\* as RmRejFiles, with a file list that misses the reject file
RmRejFiles_WrongFile ==
    /\ pc = "rm_rej"
    /\ \E rc \in ExitCodes :
          /\ log' = Append1(log, Ev("rm_rej", IGNORED_REJ_FILES[1], <<>>,
                                    FALSE, rc))
          /\ IF rc = 0 THEN Goto("add_updated") ELSE Raise("CalledProcessError")
          /\ work' = work
    /\ UNCHANGED <<repos, branches, pairs, skip_ci, git_user_name,
                   git_user_email, idx,
                   workspaces, head, index, curBranch, r, passes, open_pr,
                   prs>>

\* subprocess.check_call(["rm", "-f"] + IGNORED_REJ_FILES)
RmRejFiles ==
    /\ pc = "rm_rej"
    /\ \E rc \in ExitCodes :
          /\ log' = Append1(log, Ev("rm_rej", IGNORED_REJ_FILES[1], <<>>,
                                    FALSE, rc))
          /\ IF rc = 0 THEN Goto("add_updated") ELSE Raise("CalledProcessError")
          /\ work' = (IF rc = 0 THEN [work EXCEPT !.rej = FALSE] ELSE work)
    /\ UNCHANGED <<repos, branches, pairs, skip_ci, git_user_name,
                   git_user_email, idx,
                   workspaces, head, index, curBranch, r, passes, open_pr,
                   prs>>

\* subprocess.check_call(["git", "add", "."]) after the update
GitAddUpdated ==
    /\ pc = "add_updated"
    /\ \E rc \in ExitCodes :
          /\ CheckCall("git_add_all", rc, "pre_commit")
          /\ index' = (IF rc = 0 THEN work ELSE index)
    /\ UNCHANGED <<repos, branches, pairs, skip_ci, git_user_name,
                   git_user_email, idx,
                   workspaces, head, work, curBranch, r, passes, open_pr,
                   prs>>

\* as AfterFormatPass, with the bound of the loop off by one
AfterFormatPass_OneMore(code, done) ==
    IF code = 0 THEN "decide"
    ELSE IF done <= FormatPasses THEN "pre_commit" ELSE "decide"

\* the for loop around pre-commit: where main goes after a pass whose
\* pre-commit exit code is code, done passes being completed with it
AfterFormatPass(code, done) ==
    IF code = 0 THEN "decide"
    ELSE IF done < FormatPasses THEN "pre_commit" ELSE "decide"

\* r = subprocess.call(["pre-commit", "run", "-a"])
PreCommitRun ==
    /\ pc = "pre_commit"
    /\ \E rc \in ExitCodes, t \in FormatResults(work) :
          /\ r' = rc
          /\ work' = t
          /\ log' = Append1(log, Cmd("pre_commit", rc))
    /\ Goto("add_formatted")
    /\ UNCHANGED <<repos, branches, pairs, skip_ci, git_user_name,
                   git_user_email, idx,
                   workspaces, head, index, curBranch, passes, open_pr, prs>>

\* as GitAddFormatted, without the git add
GitAddFormatted_NoAdd ==
    /\ pc = "add_formatted"
    /\ log' = log
    /\ Goto(AfterFormatPass(r, passes + 1))
    /\ index' = index
    /\ passes' = passes + 1
    /\ UNCHANGED <<repos, branches, pairs, skip_ci, git_user_name,
                   git_user_email, idx,
                   workspaces, head, work, curBranch, r, open_pr, prs>>

\* git add . after pre-commit; if r == 0: break; next pass of the loop
GitAddFormatted ==
    /\ pc = "add_formatted"
    /\ \E rc \in ExitCodes :
          /\ CheckCall("git_add_all", rc, AfterFormatPass(r, passes + 1))
          /\ index' = (IF rc = 0 THEN work ELSE index)
          /\ passes' = (IF rc = 0 THEN passes + 1 ELSE passes)
    /\ UNCHANGED <<repos, branches, pairs, skip_ci, git_user_name,
                   git_user_email, idx,
                   workspaces, head, work, curBranch, r, open_pr, prs>>

\* as AfterFormatLoop, with the test on r inverted
AfterFormatLoop_Inverted(code) == IF code = 0 THEN "manual" ELSE "publish"

\* the branch taken after the formatting loop
AfterFormatLoop(code) == IF code # 0 THEN "manual" ELSE "publish"

\* if r != 0: print(... need manual intervention ...)
Decide ==
    /\ pc = "decide"
    /\ pc' = AfterFormatLoop(r)
    /\ log' = (IF pc' = "manual" THEN Append1(log, Cmd("manual_notice", 0))
               ELSE log)
    /\ UNCHANGED <<repos, branches, pairs, skip_ci, git_user_name,
                   git_user_email, idx, exc,
                   workspaces, head, index, work, curBranch, r, passes,
                   open_pr, prs>>

-----------------------------------------------------------------------------
(* _make_update_dotfiles_pr *)

\* git checkout -B <branch>-ocabot-update-dotfiles
PrCheckout ==
    /\ pc = "manual"
    /\ LET pr_branch == MakeUpdateDotfilesBranch(CurBranch)
       IN  \E rc \in ExitCodes :
             /\ log' = Append1(log, Ev("git_checkout_B", "", pr_branch, FALSE, rc))
             /\ curBranch' = (IF rc = 0 THEN pr_branch ELSE curBranch)
             /\ IF rc = 0 THEN Goto("pr_add") ELSE Raise("CalledProcessError")
    /\ UNCHANGED <<repos, branches, pairs, skip_ci, git_user_name,
                   git_user_email, idx,
                   workspaces, head, index, work, r, passes, open_pr, prs>>

\* git add .
PrGitAdd ==
    /\ pc = "pr_add"
    /\ \E rc \in ExitCodes :
          /\ CheckCall("git_add_all", rc, "pr_commit")
          /\ index' = (IF rc = 0 THEN work ELSE index)
    /\ UNCHANGED <<repos, branches, pairs, skip_ci, git_user_name,
                   git_user_email, idx,
                   workspaces, head, work, curBranch, r, passes, open_pr,
                   prs>>

\* as PrGitCommit, with the message of the direct commit
PrGitCommit_SkipCi ==
    /\ pc = "pr_commit"
    /\ \E rc \in ExitCodes : GitCommit(MakeCommitMsg(skip_ci), rc, "pr_push")
    /\ UNCHANGED <<repos, branches, pairs, skip_ci, git_user_name,
                   git_user_email, idx,
                   workspaces, index, work, curBranch, r, passes, open_pr,
                   prs>>

\* git commit -m _make_commit_msg(ci_skip=False)
PrGitCommit ==
    /\ pc = "pr_commit"
    /\ \E rc \in ExitCodes : GitCommit(MakeCommitMsg(FALSE), rc, "pr_push")
    /\ UNCHANGED <<repos, branches, pairs, skip_ci, git_user_name,
                   git_user_email, idx,
                   workspaces, index, work, curBranch, r, passes, open_pr,
                   prs>>

\* git push -f origin <branch>-ocabot-update-dotfiles
PrGitPush ==
    /\ pc = "pr_push"
    /\ LET pr_branch == MakeUpdateDotfilesBranch(CurBranch)
       IN  \E rc \in ExitCodes :
             /\ log' = Append1(log, Ev("git_push", "", pr_branch, TRUE, rc))
             /\ IF rc = 0 THEN Goto("pr_query") ELSE Raise("CalledProcessError")
    /\ UNCHANGED <<repos, branches, pairs, skip_ci, git_user_name,
                   git_user_email, idx,
                   workspaces, head, index, work, curBranch, r, passes,
                   open_pr, prs>>

\* _get_update_dotfiles_open_pr on the list the service answered
GetUpdateDotfilesOpenPr(response) ==
    IF response = <<>> THEN NoPR
    ELSE LET pr == response[1]
         IN  IF pr.state = "open" THEN pr.number ELSE NoPR

\* the lists the service may answer for pair p: what it answered before
\* (with what main created since), or any list when p is asked about for
\* the first time
Responses(p) == IF p \in DOMAIN prs THEN {prs[p]} ELSE PRLists

\* as PrQuery, without raise_for_status: a failed request reads as no
\* pull request
PrQuery_NoRaise ==
    /\ pc = "pr_query"
    /\ \/ \E response \in Responses(pairs[idx]) :
            /\ prs' = (pairs[idx] :> response) @@ prs
            /\ log' = Append1(log, Ev("get_pulls", "", CurBranch, FALSE, 0))
            /\ open_pr' = GetUpdateDotfilesOpenPr(response)
            /\ Goto(IF open_pr' = NoPR THEN "pr_create" ELSE "with_exit")
       \/ /\ log' = Append1(log, Ev("get_pulls", "", CurBranch, FALSE, 1))
          /\ open_pr' = NoPR
          /\ prs' = prs
          /\ Goto("pr_create")
    /\ UNCHANGED <<repos, branches, pairs, skip_ci, git_user_name,
                   git_user_email, idx,
                   workspaces, head, index, work, curBranch, r, passes>>

\* if not _get_update_dotfiles_open_pr(org, repo, branch)
PrQuery ==
    /\ pc = "pr_query"
    /\ \/ \E response \in Responses(pairs[idx]) :
            /\ prs' = (pairs[idx] :> response) @@ prs
            /\ log' = Append1(log, Ev("get_pulls", "", CurBranch, FALSE, 0))
            /\ open_pr' = GetUpdateDotfilesOpenPr(response)
            /\ Goto(IF open_pr' = NoPR THEN "pr_create" ELSE "with_exit")
       \/ /\ log' = Append1(log, Ev("get_pulls", "", CurBranch, FALSE, 1))
          /\ open_pr' = open_pr
          /\ prs' = prs
          /\ Raise("HTTPError")
    /\ UNCHANGED <<repos, branches, pairs, skip_ci, git_user_name,
                   git_user_email, idx,
                   workspaces, head, index, work, curBranch, r, passes>>

\* gh pr create --repo org/repo --base branch ...; the new pull request is
\* open and is listed first
PrCreate ==
    /\ pc = "pr_create"
    /\ \E rc \in ExitCodes :
          /\ log' = Append1(log, Ev("gh_pr_create", "", CurBranch, FALSE, rc))
          /\ prs' = (IF rc = 0
                     THEN [prs EXCEPT ![pairs[idx]] =
                              <<PR("open", Len(@) + 1)>> \o @]
                     ELSE prs)
          /\ IF rc = 0 THEN LeaveWith ELSE Raise("CalledProcessError")
    /\ UNCHANGED <<repos, branches, pairs, skip_ci, git_user_name,
                   git_user_email, idx,
                   workspaces, head, index, work, curBranch, r, passes,
                   open_pr>>

-----------------------------------------------------------------------------
(* Publishing to the target branch *)

\* gitutils.commit_if_needed: commits the staged changes if there are any;
\* main goes to ifTrue when it returns True and to ifFalse otherwise
CommitIfNeeded(msg, rc, ifTrue, ifFalse) ==
    IF index # head
    THEN GitCommit(msg, rc, ifTrue)
    ELSE Goto(ifFalse) /\ UNCHANGED <<head, log>>

\* as Publish, pushing whatever commit_if_needed returns
Publish_AlwaysPush ==
    /\ pc = "publish"
    /\ \E rc \in ExitCodes :
          CommitIfNeeded(MakeCommitMsg(skip_ci), rc, "push", "push")
    /\ UNCHANGED <<repos, branches, pairs, skip_ci, git_user_name,
                   git_user_email, idx,
                   workspaces, index, work, curBranch, r, passes, open_pr,
                   prs>>

\* if commit_if_needed(["."], _make_commit_msg(ci_skip=skip_ci)):
Publish ==
    /\ pc = "publish"
    /\ \E rc \in ExitCodes :
          CommitIfNeeded(MakeCommitMsg(skip_ci), rc, "push", "with_exit")
    /\ UNCHANGED <<repos, branches, pairs, skip_ci, git_user_name,
                   git_user_email, idx,
                   workspaces, index, work, curBranch, r, passes, open_pr,
                   prs>>

\* as GitPush, with git push -f
GitPush_Forced ==
    /\ pc = "push"
    /\ \E rc \in ExitCodes :
          /\ log' = Append1(log, Ev("git_push", "", curBranch, TRUE, rc))
          /\ IF rc = 0 THEN LeaveWith ELSE Raise("CalledProcessError")
    /\ UNCHANGED <<repos, branches, pairs, skip_ci, git_user_name,
                   git_user_email, idx,
                   workspaces, head, index, work, curBranch, r, passes,
                   open_pr, prs>>

\* subprocess.check_call(["git", "push"])
GitPush ==
    /\ pc = "push"
    /\ \E rc \in ExitCodes :
          /\ log' = Append1(log, Ev("git_push", "", curBranch, FALSE, rc))
          /\ IF rc = 0 THEN LeaveWith ELSE Raise("CalledProcessError")
    /\ UNCHANGED <<repos, branches, pairs, skip_ci, git_user_name,
                   git_user_email, idx,
                   workspaces, head, index, work, curBranch, r, passes,
                   open_pr, prs>>

-----------------------------------------------------------------------------

Next ==
    \/ LoopNext
    \/ TemporaryCloneEnter
    \/ TemporaryCloneExit
    \/ ExceptClause
    \/ Banner
    \/ GitConfigName
    \/ GitConfigEmail
    \/ CheckAnswersExist
    \/ FixCopierAnswers
    \/ FixGitAdd
    \/ FixGitCommit
    \/ CopierUpdate
    \/ RmRejFiles
    \/ GitAddUpdated
    \/ PreCommitRun
    \/ GitAddFormatted
    \/ Decide
    \/ PrCheckout
    \/ PrGitAdd
    \/ PrGitCommit
    \/ PrGitPush
    \/ PrQuery
    \/ PrCreate
    \/ Publish
    \/ GitPush

Spec == Init /\ [][Next]_vars

-----------------------------------------------------------------------------
(* _iterate_repos_and_branches on its own, for every short input *)

MaxInputLen == 3   \* length of the --repos and --branches strings

InputAlphabet == {"a", "b", ",", " "}

InputStrings == UNION {[1..n -> InputAlphabet] : n \in 0..MaxInputLen}

IterInit ==
    /\ repos \in InputStrings
    /\ branches \in InputStrings
    /\ pairs = <<>>
    /\ skip_ci = FALSE
    /\ git_user_name = FALSE
    /\ git_user_email = FALSE
    /\ idx = 0
    /\ pc = "iterate"
    /\ exc = "none"
    /\ workspaces = {}
    /\ head = NoTree
    /\ index = NoTree
    /\ work = NoTree
    /\ curBranch = <<>>
    /\ r = 0
    /\ passes = 0
    /\ open_pr = NoPR
    /\ log = <<>>
    /\ prs = <<>>

\* list(_iterate_repos_and_branches(repos, branches))
Iterate ==
    /\ pc = "iterate"
    /\ pairs' = IterateReposAndBranches(repos, branches)
    /\ pc' = "iterated"
    /\ UNCHANGED <<repos, branches, skip_ci, git_user_name, git_user_email,
                   idx, exc, workspaces, head, index, work, curBranch, r,
                   passes, open_pr, log, prs>>

IterNext == Iterate

SpecIter == IterInit /\ [][IterNext]_vars

-----------------------------------------------------------------------------
(* _fix_copier_answers called twice in one clone, for every short file *)

MaxTextLen == 3    \* length of .copier-answers.yml, in tokens

AnswerTokens == {OldField[1], OldField[2], NewField[2], "x"}

AnswerFiles ==
    {NoFile} \cup {File(t) : t \in UNION {[1..n -> AnswerTokens] : n \in 0..MaxTextLen}}

FixInit ==
    /\ repos = <<"a">>
    /\ branches = <<"x">>
    /\ pairs = IterateReposAndBranches(repos, branches)
    /\ skip_ci = FALSE
    /\ git_user_name = FALSE
    /\ git_user_email = FALSE
    /\ idx = 1
    /\ pc = "fix"
    /\ exc = "none"
    /\ workspaces = {1}
    /\ \E ans \in AnswerFiles :
          /\ head = Tree(ans, "cloned", FALSE)
          /\ index = Tree(ans, "cloned", FALSE)
          /\ work = Tree(ans, "cloned", FALSE)
    /\ curBranch = <<"x">>
    /\ r = 0
    /\ passes = 0
    /\ open_pr = NoPR
    /\ log = <<>>
    /\ prs = <<>>

\* the first call returned: _fix_copier_answers() once more
FixAgain ==
    /\ pc = "copier"
    /\ "second_call" \notin Ops(log)
    /\ log' = Append1(log, Cmd("second_call", 0))
    /\ pc' = "fix"
    /\ UNCHANGED <<repos, branches, pairs, skip_ci, git_user_name,
                   git_user_email, idx, exc, workspaces, head, index, work,
                   curBranch, r, passes, open_pr, prs>>

FixNext ==
    \/ FixCopierAnswers
    \/ FixGitAdd
    \/ FixGitCommit
    \/ FixAgain

SpecFix == FixInit /\ [][FixNext]_vars

-----------------------------------------------------------------------------
(* Vocabulary of the properties *)

IsPreCommit(e) == e.op = "pre_commit"

\* exit codes of the pre-commit runs of the current iteration, in order
FmtCodes ==
    LET runs == SelectSeq(log, IsPreCommit)
    IN  [i \in 1..Len(runs) |-> runs[i].rc]

LastFmtCode == FmtCodes[Len(FmtCodes)]

\* positions inside _make_update_dotfiles_pr
ManualPcs == {"manual", "pr_add", "pr_commit", "pr_push", "pr_query",
              "pr_create"}

\* positions of the direct commit and push to the target branch
PublishPcs == {"publish", "push"}

\* positions inside the with block
WithPcs == {"banner", "config_name", "config_email", "exists", "fix",
            "fix_add", "fix_commit", "copier", "rm_rej", "add_updated",
            "pre_commit", "add_formatted", "decide", "with_exit"}
           \cup ManualPcs \cup PublishPcs

\* commands of the manual-intervention procedure
ManualOps == {"git_checkout_B", "get_pulls", "gh_pr_create"}

\* the i-th command of the iteration is a successful commit with an
\* "update dotfiles" message on the target branch
IsDirectCommit(i) ==
    /\ log[i].op = "git_commit"
    /\ log[i].rc = 0
    /\ log[i].br = CurBranch
    /\ log[i].msg # FixCommitMsg

\* the i-th command of the iteration is a push that is not forced
IsDirectPush(i) == log[i].op = "git_push" /\ ~log[i].force

-----------------------------------------------------------------------------
(* C1: the create-pull-request call is issued only when the service holds  *)
(* no open pull request for the head and base of the current pair, so no   *)
(* pair ever has two open pull requests.  The code looks at the first      *)
(* listed pull request only, so this fails.                                *)
C1_CreateOnlyWithoutOpenPR ==
    /\ pc = "pr_create" => OpenPRs(prs[pairs[idx]]) = {}
    /\ \A p \in DOMAIN prs : Cardinality(OpenPRs(prs[p])) <= 1

(* C2: between one and three pre-commit runs per iteration that reaches    *)
(* formatting, none after a run that exited 0; the loop is left only after *)
(* a zero exit or after the third run, and after [1,1,0] main is on the    *)
(* ready-to-publish side with r = 0.                                       *)
C2_FormatLoopBounded ==
    /\ Len(FmtCodes) <= 3
    /\ \A i \in 1..(Len(FmtCodes) - 1) : FmtCodes[i] # 0
    /\ pc \in {"add_formatted", "decide"} \cup ManualPcs \cup PublishPcs
          => Len(FmtCodes) >= 1
    /\ pc = "decide" => (LastFmtCode = 0 \/ Len(FmtCodes) = 3)
    /\ FmtCodes = <<1, 1, 0>> =>
          /\ pc \notin ManualPcs
          /\ "manual_notice" \notin Ops(log)
          /\ pc = "decide" => r = 0

C2_Witness == pc = "publish" /\ FmtCodes = <<1, 1, 0>>

(* C3: after the formatting loop main takes the manual-intervention path   *)
(* exactly when the last pre-commit exit code is non-zero (all three runs  *)
(* failed) and the publish path otherwise, and no iteration contains both  *)
(* a direct commit or push and a command of the pull-request procedure.    *)
C3_ManualIffLastRunFailed ==
    /\ [](/\ pc \in ManualPcs =>
                /\ Len(FmtCodes) = 3
                /\ \A i \in 1..3 : FmtCodes[i] # 0
          /\ pc \in PublishPcs => (FmtCodes # <<>> /\ LastFmtCode = 0)
          /\ ~(/\ \/ Ops(log) \cap ManualOps # {}
                  \/ "manual_notice" \in Ops(log)
               /\ \E i \in 1..Len(log) : IsDirectCommit(i) \/ IsDirectPush(i)))
    /\ [][pc = "decide" =>
             /\ (pc' = "manual") <=> (LastFmtCode # 0)
             /\ (pc' = "publish") <=> (LastFmtCode = 0)]_vars

C3_Witness == pc = "manual" /\ FmtCodes = <<1, 1, 1>>

(* C4: the temporary clone of an iteration is gone whenever main is        *)
(* outside the with block -- after a normal exit, a continue, an exception *)
(* or a failed acquisition -- so at most one exists at any time and none   *)
(* when the next one is acquired or when the run ends.                     *)
C4_WorkspaceReleased ==
    /\ Cardinality(workspaces) <= 1
    /\ pc \in {"loop", "clone", "except", "done", "aborted"} => workspaces = {}
    /\ pc \in WithPcs => workspaces = {idx}

C4_Witness ==
    /\ pc = "aborted"
    /\ exc = "CalledProcessError"
    /\ "banner" \in Ops(log)
    /\ workspaces = {}

(* C5: on the publish path nothing is committed or pushed when the index   *)
(* equals HEAD, and every unforced push comes right after a successful     *)
(* commit with the update message on the target branch.                    *)
C5_NoChangeNoPush ==
    /\ [](\A i \in 1..Len(log) :
             IsDirectPush(i) =>
                /\ i > 1
                /\ log[i - 1] = Ev("git_commit", MakeCommitMsg(skip_ci),
                                   CurBranch, FALSE, 0)
                /\ log[i].br = CurBranch)
    /\ [][pc = "publish" /\ index = head =>
             log' = log /\ head' = head /\ pc' = "with_exit"]_vars

C5_Witness ==
    /\ pc = "with_exit"
    /\ exc = "none"
    /\ FmtCodes # <<>>
    /\ LastFmtCode = 0
    /\ index = head
    /\ \A i \in 1..Len(log) : log[i].op \notin {"git_commit", "git_push"}

\* successful commits of the current iteration
Commits == {i \in 1..Len(log) : log[i].op = "git_commit" /\ log[i].rc = 0}

\* successful commits made by _fix_copier_answers
FixCommits == {i \in Commits : log[i].msg = FixCommitMsg}

\* successful pushes of the current iteration
Pushes == {i \in 1..Len(log) : log[i].op = "git_push" /\ log[i].rc = 0}

\* the iteration ended without an exception after a successful update, a
\* single pre-commit run that exited 0, and a commit of staged changes
CleanUpdateDone ==
    /\ pc = "with_exit"
    /\ exc = "none"
    /\ Cmd("copier_update", 0) \in {log[i] : i \in 1..Len(log)}
    /\ FmtCodes = <<0>>
    /\ \E i \in 1..Len(log) :
          log[i].op = "git_commit" /\ log[i].msg # FixCommitMsg

C7_NoConfigSkips ==
    /\ [](/\ "skip_notice" \in Ops(log) =>
                /\ log[Len(log)].op = "skip_notice"
                /\ Ops(log) \subseteq {"git_clone", "banner", "git_config_name",
                                       "git_config_email", "skip_notice"}
                /\ pc \in {"with_exit", "loop", "done"}
                /\ exc = "none"
          /\ pc \in (WithPcs \ {"banner", "config_name", "config_email",
                                "exists", "with_exit"})
                => (work.ans.exists /\ "skip_notice" \notin Ops(log)))
    /\ [][pc = "exists" /\ ~work.ans.exists =>
             "skip_notice" \in Ops(log') /\ pc' = "with_exit"]_vars
    /\ [][pc = "loop" /\ "skip_notice" \in Ops(log) /\ idx < Len(pairs) =>
             pc' = "clone" /\ idx' = idx + 1]_vars

C7_Witness ==
    /\ pc = "loop"
    /\ idx < Len(pairs)
    /\ "skip_notice" \in Ops(log)

(* C8: when copier update exits non-zero the iteration prints its notice   *)
(* and runs nothing after it -- no rm, no git add, no pre-commit, no       *)
(* commit, no push, no pull-request command -- and leaves the with block   *)
(* without an exception, so main takes the next pair.                      *)
C8_UpdateFailedSkips ==
    /\ [](/\ (\E i \in 1..Len(log) : log[i].op = "copier_update" /\ log[i].rc # 0)
             <=> "update_failed_notice" \in Ops(log)
          /\ "update_failed_notice" \in Ops(log) =>
                /\ log[Len(log)].op = "update_failed_notice"
                /\ log[Len(log) - 1].op = "copier_update"
                /\ Ops(log) \cap {"rm_rej", "git_add_all", "pre_commit",
                                  "git_push", "manual_notice"} = {}
                /\ Ops(log) \cap ManualOps = {}
                /\ pc \in {"with_exit", "loop", "done"}
                /\ exc = "none")
    /\ [][pc = "loop" /\ "update_failed_notice" \in Ops(log)
             /\ idx < Len(pairs) => pc' = "clone" /\ idx' = idx + 1]_vars

C8_Witness ==
    /\ pc = "loop"
    /\ idx < Len(pairs)
    /\ "update_failed_notice" \in Ops(log)
    /\ "git_add_answers" \in Ops(log)

\* a command run with check_call exited non-zero in the current iteration
RequiredStepFailed ==
    \E i \in 1..Len(log) :
        /\ log[i].rc # 0
        /\ log[i].op \notin {"git_clone", "copier_update", "pre_commit",
                             "get_pulls"}

(* C9, as stated: a failing required step ends only its own iteration, so  *)
(* when the run has ended after such a failure every pair was started.     *)
C9_FailuresIsolated ==
    (RequiredStepFailed /\ pc \in {"done", "aborted"}) => idx = Len(pairs)

(* C9, amended: only the explicit skips, a completed publish or            *)
(* manual-intervention path and branch-not-found end just the current      *)
(* iteration, after which every later pair is started; a non-zero exit     *)
(* from a required step, or any exception other than branch-not-found, is  *)
(* not caught: it leaves main and no later pair is started.                *)
C9_OnlySkipsIsolated ==
    /\ [](/\ pc = "done" => idx = Len(pairs)
          /\ RequiredStepFailed =>
                /\ pc \in {"with_exit", "except", "aborted"}
                /\ exc = "CalledProcessError")
    /\ [][pc = "with_exit" /\ exc = "none" => pc' = "loop"]_vars
    /\ [][pc = "except" /\ exc # "BranchNotFoundError" =>
             pc' = "aborted" /\ idx' = idx]_vars
    /\ [][pc = "aborted" => FALSE]_vars

C9_Witness ==
    /\ pc = "aborted"
    /\ idx < Len(pairs)
    /\ RequiredStepFailed

(* C10: when the clone fails with branch-not-found nothing else runs in    *)
(* that iteration and no workspace is left, the except clause swallows the *)
(* exception and main takes the next pair; no other exception is swallowed.*)
C10_BranchNotFoundSwallowed ==
    /\ [](/\ exc = "BranchNotFoundError" => pc = "except"
          /\ (log # <<>> /\ log[1].msg = "BranchNotFoundError") =>
                /\ Len(log) = 1
                /\ workspaces = {}
                /\ pc \in {"except", "loop", "done"})
    /\ [][pc = "except" /\ exc = "BranchNotFoundError" =>
             pc' = "loop" /\ exc' = "none" /\ idx' = idx]_vars
    /\ [][pc = "except" /\ pc' # "aborted" => exc = "BranchNotFoundError"]_vars
    /\ [][pc = "loop" /\ idx < Len(pairs) => pc' = "clone" /\ idx' = idx + 1]_vars

C10_Witness ==
    /\ pc = "loop"
    /\ idx >= 1
    /\ idx < Len(pairs)
    /\ exc = "none"
    /\ log = <<Ev("git_clone", "BranchNotFoundError", CurBranch, FALSE, 1)>>


\* a version-control command or the pull-request listing failed in the
\* current iteration (a clone failing with branch-not-found is not one)
VcsOrApiFailed ==
    \E i \in 1..Len(log) :
        /\ log[i].rc # 0
        /\ \/ log[i].op \in {"git_add_answers", "git_add_all", "git_commit",
                             "git_push", "get_pulls"}
           \/ log[i].op = "git_clone" /\ log[i].msg # "BranchNotFoundError"

(* C11: a failed listing of the pull requests, or a failed clone (other    *)
(* than branch-not-found), add, commit or push, is the last command of the *)
(* run: the exception reaches the end of main, no further pair is started  *)
(* and no pull request is created in the failing iteration.                *)
C11_FailurePropagates ==
    /\ [](VcsOrApiFailed =>
             /\ log[Len(log)].rc # 0
             /\ pc \in {"with_exit", "except", "aborted"}
             /\ exc \in {"CalledProcessError", "HTTPError"}
             /\ "gh_pr_create" \notin Ops(log)
             /\ log[Len(log)].op = "get_pulls" <=> exc = "HTTPError")
    /\ [][VcsOrApiFailed =>
             /\ idx' = idx
             /\ log' = log
             /\ prs' = prs
             /\ pc' \in {"except", "aborted"}]_vars

C11_Witness ==
    /\ pc = "aborted"
    /\ exc = "HTTPError"
    /\ idx < Len(pairs)
    /\ VcsOrApiFailed


\* positions of the separators of s, with both ends of s
CommaCuts(s) == {0, Len(s) + 1} \cup {i \in 1..Len(s) : s[i] = ","}

\* the k-th smallest element of a set of numbers
NthOf(S, k) == CHOOSE c \in S : Cardinality({d \in S : d < c}) = k - 1

\* the pieces of s between consecutive separators, in order
Pieces(s) ==
    [k \in 1..(Cardinality(CommaCuts(s)) - 1) |->
        SubSeq(s, NthOf(CommaCuts(s), k) + 1, NthOf(CommaCuts(s), k + 1) - 1)]

\* e from its first to its last character that is not white space
Trimmed(e) ==
    LET ns == {i \in 1..Len(e) : e[i] \notin WhiteSpace}
    IN  IF ns = {} THEN <<>>
        ELSE SubSeq(e, NthOf(ns, 1), NthOf(ns, Cardinality(ns)))

NotBlank(e) == e # <<>>

\* the trimmed, non-empty comma-separated entries of s, in input order
Entries(s) ==
    SelectSeq([k \in 1..Len(Pieces(s)) |-> Trimmed(Pieces(s)[k])], NotBlank)

(* C12: for repos other than ":all:", the iterator yields exactly the      *)
(* pairs of a trimmed non-empty entry of repos with a trimmed non-empty    *)
(* entry of branches: |repos| x |branches| of them, repository-major, in   *)
(* input order, duplicates kept, nothing for a blank entry.                *)
C12_IteratorIsCrossProduct ==
    (pc = "iterated" /\ repos # AllSentinel) =>
        LET R == Entries(repos)
            B == Entries(branches)
        IN  /\ Len(pairs) = Len(R) * Len(B)
            /\ \A i \in 1..Len(R) : \A j \in 1..Len(B) :
                  pairs[(i - 1) * Len(B) + j] = <<R[i], B[j]>>

C12_Witness ==
    /\ pc = "iterated"
    /\ repos = <<"b", ",", "a">>
    /\ branches = <<" ", "b", ",">>
    /\ pairs = << << <<"b">>, <<"b">> >>, << <<"a">>, <<"b">> >> >>


\* the text holds the field with the null description
HasOldField(text) ==
    \E i \in 1..(Len(text) - 1) :
        text[i] = OldField[1] /\ text[i + 1] = OldField[2]

\* the file is absent or holds no null description
NothingToFix == ~work.ans.exists \/ ~HasOldField(work.ans.text)

(* C13: a call of _fix_copier_answers on an absent file or a file without  *)
(* the null description changes nothing, runs no command and raises        *)
(* nothing; otherwise it rewrites the file, stages it and commits it with  *)
(* "[FIX] .copier-answers.yml"; after a call that returned the file has no *)
(* null description left, so a second call changes nothing and commits     *)
(* nothing.                                                                *)
C13_FixerIdempotent ==
    /\ [](/\ pc = "copier" => NothingToFix
          /\ "second_call" \in Ops(log) =>
                /\ log[Len(log)].op = "second_call"
                /\ exc = "none"
          /\ Cardinality({i \in 1..Len(log) : log[i].op = "git_commit"}) <= 1
          /\ \A i \in 1..Len(log) :
                log[i].op = "git_commit" =>
                   /\ log[i].msg = FixCommitMsg
                   /\ i >= 3
                   /\ log[i - 1] = Cmd("git_add_answers", 0)
                   /\ log[i - 2] = Cmd("write_answers", 0))
    /\ [][pc = "fix" /\ NothingToFix =>
             /\ pc' = "copier"
             /\ exc' = "none"
             /\ work' = work /\ index' = index /\ head' = head
             /\ log' = log]_vars
    /\ [][pc = "fix" /\ ~NothingToFix =>
             /\ pc' = "fix_add"
             /\ work'.ans.exists
             /\ work'.ans.text # work.ans.text
             /\ ~HasOldField(work'.ans.text)]_vars

C13_Witness ==
    /\ pc = "copier"
    /\ log # <<>>
    /\ log[Len(log)].op = "second_call"
    /\ FixCommits # {}


(* C14: an iteration whose formatting still fails after the retries        *)
(* completes the manual-intervention procedure instead of ending in an     *)
(* exception, also when nothing is staged relative to HEAD.  Stated for    *)
(* the iterations that reach the commit of the procedure with the index    *)
(* equal to HEAD: they fail there.                                         *)
C14_ManualPathCompletes ==
    (/\ pc = "with_exit"
     /\ "manual_notice" \in Ops(log)
     /\ log[Len(log)].op = "git_commit"
     /\ index = head)
        => exc = "none"


(* C15: every pre-commit run is followed at once by git add ., before the  *)
(* next run, the end of the loop or the choice of path, so at that choice  *)
(* and when a commit is made the index holds what the last formatting pass *)
(* left in the working directory.                                          *)
C15_StageAfterEveryFormat ==
    /\ [](/\ \A i \in 1..Len(log) :
                log[i].op = "pre_commit" =>
                   IF i = Len(log) THEN pc = "add_formatted"
                   ELSE log[i + 1].op = "git_add_all"
          /\ pc \in {"pre_commit", "decide", "manual", "publish", "pr_commit"}
                => index = work
          /\ \A i \in Commits : log[i].msg # FixCommitMsg => head = work)
    /\ [][pc = "add_formatted" =>
             /\ log' = Append1(log, log'[Len(log')])
             /\ log'[Len(log')].op = "git_add_all"
             /\ log'[Len(log')].rc = 0 => index' = work]_vars

C15_Witness ==
    /\ pc = "publish"
    /\ FmtCodes = <<1, 0>>
    /\ work.rest = "changed"
    /\ index = work


\* position in the log of the first command named op (0 when there is none)
FirstOp(op) ==
    IF op \in Ops(log)
    THEN CHOOSE i \in 1..Len(log) :
            log[i].op = op /\ \A j \in 1..(i - 1) : log[j].op # op
    ELSE 0

(* C16, as stated: between a successful update and the first formatting    *)
(* run the changes are staged first and the reject files removed second.   *)
C16_StageThenRemove ==
    "rm_rej" \in Ops(log) =>
        /\ FirstOp("git_add_all") # 0
        /\ FirstOp("git_add_all") < FirstOp("rm_rej")

(* C16, amended: between a successful update and the first formatting run  *)
(* the known ignorable reject file is removed first and the changes are    *)
(* staged second, so that file is never staged.                            *)
C16_RemoveThenStage ==
    /\ "pre_commit" \in Ops(log) =>
          LET p == FirstOp("pre_commit")
          IN  /\ p >= 4
              /\ log[p - 3] = Cmd("copier_update", 0)
              /\ log[p - 2] = Ev("rm_rej", "oca_dependencies.txt.rej", <<>>,
                                 FALSE, 0)
              /\ log[p - 1] = Cmd("git_add_all", 0)
    /\ "rm_rej" \in Ops(log) =>
          /\ log[FirstOp("rm_rej") - 1] = Cmd("copier_update", 0)
          /\ \A j \in 1..FirstOp("rm_rej") : log[j].op # "git_add_all"
    /\ ~index.rej

C16_Witness ==
    /\ pc = "pre_commit"
    /\ passes = 0
    /\ work.rest = "changed"
    /\ ~work.rej
    /\ log[Len(log)] = Cmd("git_add_all", 0)


\* every gh pr create of the iteration comes right after, in this order,
\* checkout -B of the pull-request branch, git add, the commit, the forced
\* push of that branch and the listing of the pull requests, all of them
\* successful, and names the target branch as base
ManualStepsInOrder ==
    \A i \in 1..Len(log) :
        log[i].op = "gh_pr_create" =>
           LET pr_branch == CurBranch \o <<"-ocabot-update-dotfiles">>
           IN  /\ i >= 6
               /\ log[i - 5] = Ev("git_checkout_B", "", pr_branch, FALSE, 0)
               /\ log[i - 4] = Cmd("git_add_all", 0)
               /\ log[i - 3] = Ev("git_commit", "[IMP] update dotfiles",
                                  pr_branch, FALSE, 0)
               /\ log[i - 2] = Ev("git_push", "", pr_branch, TRUE, 0)
               /\ log[i - 1] = Ev("get_pulls", "", CurBranch, FALSE, 0)
               /\ log[i].br = CurBranch

(* C17: the manual-intervention steps run in the order checkout -B, stage, *)
(* commit, forced push, listing of the open pull requests for the head and *)
(* base, and then, only if none is open, gh pr create with the target      *)
(* branch as base.  The order and the base hold; "only if none is open"    *)
(* fails as in C1.                                                         *)
C17_ManualOrderAndOnlyIfNoneOpen ==
    /\ ManualStepsInOrder
    /\ pc = "pr_create" =>
          \A i \in 1..Len(prs[pairs[idx]]) : prs[pairs[idx]][i].state # "open"


(* C18: a forced push is only ever the push of the pull-request branch on  *)
(* the manual-intervention path; the target branch is pushed without       *)
(* force, only after commit_if_needed committed, and never in an           *)
(* iteration that took the manual-intervention path.                       *)
C18_ForceOnlyOnPrBranch ==
    \A i \in 1..Len(log) :
        log[i].op = "git_push" =>
           IF log[i].force
           THEN /\ log[i].br = CurBranch \o <<"-ocabot-update-dotfiles">>
                /\ log[i].br # CurBranch
                /\ \E j \in 1..(i - 1) : log[j].op = "manual_notice"
                /\ \E j \in 1..(i - 1) :
                      log[j].op = "git_checkout_B" /\ log[j].br = log[i].br
           ELSE /\ log[i].br = CurBranch
                /\ "manual_notice" \notin Ops(log)
                /\ log[i - 1].op = "git_commit"
                /\ log[i - 1].rc = 0
                /\ log[i - 1].br = CurBranch

C18_Witness ==
    /\ pc = "pr_query"
    /\ log[Len(log)].op = "git_push"
    /\ log[Len(log)].force
    /\ log[Len(log)].rc = 0

(* C19: the commit on the pull-request branch always has the message       *)
(* "[IMP] update dotfiles", whatever skip-ci is; the commit on the target  *)
(* branch has " [ci skip]" appended exactly when skip-ci is set.           *)
C19_CiSkipOnlyOnDirectCommit ==
    \A i \in 1..Len(log) :
        (log[i].op = "git_commit" /\ log[i].msg # "[FIX] .copier-answers.yml") =>
           IF "manual_notice" \in Ops(log)
           THEN /\ log[i].msg = "[IMP] update dotfiles"
                /\ log[i].br # CurBranch
           ELSE /\ log[i].br = CurBranch
                /\ skip_ci => log[i].msg = "[IMP] update dotfiles [ci skip]"
                /\ ~skip_ci => log[i].msg = "[IMP] update dotfiles"

C19_Witness ==
    /\ skip_ci
    /\ pc = "pr_push"
    /\ log[Len(log)] = Ev("git_commit", "[IMP] update dotfiles", curBranch,
                          FALSE, 0)


(* C20: a commit of the answers fixer is pushed only together with a later *)
(* update commit of the same iteration; when the iteration makes no such   *)
(* commit (update failed, or nothing to commit on the publish path)        *)
(* nothing is pushed and the fix commit is gone with the clone.            *)
C20_FixCommitNeverPushedAlone ==
    /\ \A p \in 1..Len(log) :
          log[p].op = "git_push" =>
             \A f \in FixCommits :
                \E c \in Commits \ FixCommits : f < c /\ c < p
    /\ (FixCommits # {} /\ Commits \ FixCommits = {}) =>
          /\ "git_push" \notin Ops(log)
          /\ pc \in {"loop", "except", "done", "aborted"} =>
                (workspaces = {} /\ head = NoTree)
    /\ ("update_failed_notice" \in Ops(log)
          \/ (pc = "with_exit" /\ exc = "none" /\ FmtCodes # <<>>
              /\ LastFmtCode = 0 /\ Commits \ FixCommits = {}))
          => "git_push" \notin Ops(log)

C20_Witness ==
    /\ pc = "loop"
    /\ FixCommits # {}
    /\ FmtCodes = <<0>>
    /\ Commits \ FixCommits = {}
    /\ head = NoTree

====
